---- MODULE Spec2Model ----
(***************************************************************************)
(* PingMonitor: the dynamic multi-target monitoring engine                 *)
(* (database_ping_monitor.py, class DynamicPingMonitor).                   *)
(*                                                                         *)
(* Processes: the main thread (constructor, run loop, shutdown), the       *)
(* configuration watcher thread (monitor_config) and one monitor thread    *)
(* per started target (monitor_url_with_stop).  The .env file is edited by *)
(* the operator, outside the program.                                      *)
(***************************************************************************)
EXTENDS Integers, Sequences, FiniteSets, TLC

(* ------------------------------ bounds --------------------------------- *)
\* edits of the .env file by the operator
MaxEdits == 2
\* monitor threads created over the life of the process
MaxThreads == 2
\* probe cycles one monitor may begin, in the whole-system specification
MaxAttempts == 1
\* probe cycles one monitor may begin, in the single-target specification
MaxRun == 4
\* greatest ALERT_THRESHOLD the operator writes, single-target specification
MaxAlertThreshold == 3
\* signals delivered to the process, each calling shutdown()
MaxShutdowns == 2
\* probe cycles one monitor may begin, in the specifications with faults and
\* with changing settings
MaxShortRun == 2
\* rows of a target older than the long stretch of its log, and its latest rows
MaxOld == 2
MaxTail == 2
\* rows one monitor of the flat-file variant logs
MaxRows == 2

(* ------------------------------ inputs --------------------------------- *)
Urls == {"a", "b"}
\* Python's None where a number is expected (ping_host: return False, None)
NoValue == -1
None == "None"
\* latencies a successful ping reports, and PING_THRESHOLD values (ms)
Latencies == {90, 100, 150}
PingThresholds == {100}
\* what ping_host returns: (success, response_time_ms)
ProbeResults ==
    {[success |-> FALSE, response_time_ms |-> NoValue]}
        \cup {[success |-> TRUE, response_time_ms |-> l] : l \in Latencies}
\* the probe results of the whole-system specification: the targets are down
SysProbeResults == {[success |-> FALSE, response_time_ms |-> NoValue]}
\* log_to_database: the insert went through, or raised and was caught and printed
SinkOutcomes == BOOLEAN
\* the whole-system specification: the database is up
SysSinkOutcomes == {TRUE}
\* PING_INTERVAL values (s)
PingIntervals == {30, 60}
\* a setting that float() or int() rejects, such as ALERT_THRESHOLD=three
Malformed == -2
\* the notifiers of an alerting branch, in the order they are called
Channels == <<"desktop", "email", "sound">>
ChannelSet == {Channels[i] : i \in 1..Len(Channels)}
\* the channels that raise in one alerting branch
ChannelFaults == SUBSET ChannelSet
\* the whole-system and the single-target specification: every channel works
NoChannelFaults == {{}}
\* contents of .env: TARGET_URLS, PING_THRESHOLD, ALERT_THRESHOLD, PING_INTERVAL
SysConfigs ==
    {[urls |-> u, ping_threshold |-> 100, alert_threshold |-> 2, ping_interval |-> 30] :
        u \in SUBSET Urls}
MonConfigs ==
    {[urls |-> {"a"}, ping_threshold |-> p, alert_threshold |-> a, ping_interval |-> 30] :
        p \in PingThresholds, a \in 1..MaxAlertThreshold}
\* settings that differ in each of the three values a cycle reads
ReloadConfigs ==
    {[urls |-> {"a"}, ping_threshold |-> p, alert_threshold |-> a, ping_interval |-> i] :
        p \in {100, 150}, a \in {1, 2}, i \in PingIntervals}
\* the probe of the specifications with faults and with changing settings:
\* down, or up and slow
ShortProbeResults ==
    {[success |-> FALSE, response_time_ms |-> NoValue],
     [success |-> TRUE, response_time_ms |-> 150]}
\* settings with a malformed threshold among them, and a file that names no target
FaultConfigs ==
    {[urls |-> u, ping_threshold |-> 100, alert_threshold |-> a, ping_interval |-> 30] :
        u \in {{}, {"a"}}, a \in {1, Malformed}}

(* ------------------------------ state ---------------------------------- *)
VARIABLES
    file,            \* contents of .env
    mtime,           \* modification time of .env
    env,             \* os.environ: PING_THRESHOLD, ALERT_THRESHOLD, PING_INTERVAL
    active_threads,  \* self.active_threads: url -> thread
    stop_events,     \* self.stop_events: url -> threading.Event
    current_urls,    \* self.current_urls
    config_lock,     \* holder of self.config_lock, or None
    running,         \* self.running
    threads,         \* every monitor thread created so far, with its locals and its Event
    sink,            \* per monitor thread, the calls of log_to_database: how many, and the last row
    proc,            \* main and watcher: position and the locals of reload_config / shutdown
    last_modified,   \* monitor_config's local
    pool,            \* db_manager.pool: whether it is set, and the calls of its close()
    shutdowns,       \* the calls of shutdown() so far
    ping_data,       \* csv_server: the rows read_csv_data returned, in file order
    url_statuses,    \* csv_server: what aggregate_url_statuses returned for them
    csv_lock,        \* PingMonitor.py: the thread that holds csv_lock
    csvfile,         \* PingMonitor.py: the file CSV_FILENAME, as the parts of rows written to it
    flat_threads,    \* PingMonitor.py: the monitor_url threads, in start order
    flat_main,       \* PingMonitor.py: start_monitoring's index into TARGET_URLS
    hist             \* observers: per monitor, its last cycle, its runs of bad events with the
                     \* alerts fired in them, and whether shutdown found it (and all) waiting

vars == <<file, mtime, env, active_threads, stop_events, current_urls, config_lock,
          running, threads, sink, proc, last_modified, pool, shutdowns, hist,
          ping_data, url_statuses, csv_lock, csvfile, flat_threads, flat_main>>

\* the flat-file variant
flatvars == <<csv_lock, csvfile, flat_threads, flat_main>>

Tids == 1..Len(threads)

\* sys.exit(0) after shutdown ends the process: daemon threads stop with it
Alive == proc["main"].pc # "exited"

(* --------------------------- monitor thread ---------------------------- *)
\* A monitor reads its Event at the top of the loop and in the wait, and
\* nothing else that another thread writes after the thresholds are read; what
\* it does in between (resolve, ping, notify, log) is one step, taken when the
\* last of those calls returns.  pc = "cycle" is a monitor inside those calls.

\* monitor_url_with_stop's locals at entry, with the Event made for it
NewThread(url) ==
    [url |-> url, pc |-> "check", is_set |-> FALSE,
     consecutive_failures |-> 0, consecutive_latency_alerts |-> 0, counter |-> 1,
     ping_threshold |-> NoValue, alert_threshold |-> NoValue, ping_interval |-> NoValue,
     ip |-> None, success |-> FALSE, response_time_ms |-> NoValue, status |-> None,
     alert |-> FALSE]

\* the thread is over: the loop was left, or an exception left the function
Ended(th) == th.pc \in {"done", "crashed"}

\* float(os.getenv(...)) and int(os.getenv(...)) at the top of a cycle: a
\* malformed value raises ValueError, which nothing in the thread catches
ReadThresholdsDefault(th, e) ==
    [th EXCEPT !.ping_threshold = 100,
               !.alert_threshold = 3,
               !.ping_interval = 30,
               !.pc = "cycle"]

ReadThresholds(th, e) ==
    IF Malformed \in {e.ping_threshold, e.alert_threshold, e.ping_interval}
    THEN [th EXCEPT !.pc = "crashed"]
    ELSE [th EXCEPT !.ping_threshold = e.ping_threshold,
                    !.alert_threshold = e.alert_threshold,
                    !.ping_interval = e.ping_interval,
                    !.pc = "cycle"]

\* ip = resolve_url_to_ip(url) returned an address
Resolved(th) == [th EXCEPT !.ip = "ip"]

\* if not ip: on to stop_event.wait(ping_interval), then continue
UnresolvedResetsCounters(th) ==
    [th EXCEPT !.ip = None, !.pc = "wait",
               !.consecutive_failures = 0, !.consecutive_latency_alerts = 0,
               !.ping_threshold = NoValue, !.alert_threshold = NoValue]

Unresolved(th) ==
    [th EXCEPT !.ip = None, !.pc = "wait",
               !.ping_threshold = NoValue, !.alert_threshold = NoValue]

\* if not success: ... up to the test of the alert threshold
ProbeFailedStrictAlert(th) ==
    [th EXCEPT !.status = "Ping Failure",
               !.consecutive_failures = @ + 1,
               !.consecutive_latency_alerts = 0,
               !.alert = th.consecutive_failures + 1 > th.alert_threshold]

ProbeFailedKeepLatency(th) ==
    [th EXCEPT !.status = "Ping Failure",
               !.consecutive_failures = @ + 1,
               !.alert = th.consecutive_failures + 1 >= th.alert_threshold]

ProbeFailedExactAlert(th) ==
    [th EXCEPT !.status = "Ping Failure",
               !.consecutive_failures = @ + 1,
               !.consecutive_latency_alerts = 0,
               !.alert = th.consecutive_failures + 1 = th.alert_threshold]

ProbeFailed(th) ==
    [th EXCEPT !.status = "Ping Failure",
               !.consecutive_failures = @ + 1,
               !.consecutive_latency_alerts = 0,
               !.alert = th.consecutive_failures + 1 >= th.alert_threshold]

\* else: consecutive_failures = 0; if response_time_ms > ping_threshold: ... else: ...
ProbeSucceededAtOrAbove(th) ==
    IF th.response_time_ms >= th.ping_threshold
    THEN [th EXCEPT !.status = "High Latency",
                    !.consecutive_failures = 0,
                    !.consecutive_latency_alerts = @ + 1,
                    !.alert = th.consecutive_latency_alerts + 1 >= th.alert_threshold]
    ELSE [th EXCEPT !.status = "Success",
                    !.consecutive_failures = 0,
                    !.consecutive_latency_alerts = 0,
                    !.alert = FALSE]

ProbeSucceededKeepLatency(th) ==
    IF th.response_time_ms > th.ping_threshold
    THEN [th EXCEPT !.status = "High Latency",
                    !.consecutive_failures = 0,
                    !.consecutive_latency_alerts = @ + 1,
                    !.alert = th.consecutive_latency_alerts + 1 >= th.alert_threshold]
    ELSE [th EXCEPT !.status = "Success",
                    !.consecutive_failures = 0,
                    !.alert = FALSE]

ProbeSucceeded(th) ==
    IF th.response_time_ms > th.ping_threshold
    THEN [th EXCEPT !.status = "High Latency",
                    !.consecutive_failures = 0,
                    !.consecutive_latency_alerts = @ + 1,
                    !.alert = th.consecutive_latency_alerts + 1 >= th.alert_threshold]
    ELSE [th EXCEPT !.status = "Success",
                    !.consecutive_failures = 0,
                    !.consecutive_latency_alerts = 0,
                    !.alert = FALSE]

\* success, response_time_ms = ping_host(ip), then "Determine status" up to the
\* alert decision
Evaluate(th, r) ==
    LET got == [th EXCEPT !.success = r.success, !.response_time_ms = r.response_time_ms]
    IN  IF ~r.success THEN ProbeFailed(got) ELSE ProbeSucceeded(got)

\* send_desktop_notification, send_email, play_alert_sound: each catches what
\* its channel raises, prints it and returns, so the next one is called
AttemptedUntilRaise(failed) ==
    {Channels[i] : i \in {j \in 1..Len(Channels) :
                             \A k \in 1..(j - 1) : Channels[k] \notin failed}}

Attempted(failed) == {Channels[i] : i \in 1..Len(Channels)}

\* in the alerting branch, after the three notifiers: the counter is reset
AlertResetNone(th) == th

AlertReset(th) ==
    IF ~th.alert THEN th
    ELSE IF th.status = "Ping Failure"
         THEN [th EXCEPT !.consecutive_failures = 0]
         ELSE [th EXCEPT !.consecutive_latency_alerts = 0]

\* the row log_to_database is called with
RecordNextCount(th) ==
    [url |-> th.url, status |-> th.status,
     response_time_ms |-> IF th.success THEN th.response_time_ms ELSE NoValue,
     count |-> th.counter + 1]

Record(th) ==
    [url |-> th.url, status |-> th.status,
     response_time_ms |-> IF th.success THEN th.response_time_ms ELSE NoValue,
     count |-> th.counter]

\* counter += 1 and on to the wait.  The other locals of the cycle are dead from
\* here on (each is assigned again before it is read) and are forgotten.
EndCycle(th) ==
    [th EXCEPT !.counter = @ + 1, !.pc = "wait",
               !.ping_threshold = NoValue, !.alert_threshold = NoValue,
               !.ip = None, !.success = FALSE, !.response_time_ms = NoValue,
               !.status = None, !.alert = FALSE]

\* no call of log_to_database yet
NoRows == [rows |-> 0, last |-> [url |-> None, status |-> None,
                                 response_time_ms |-> NoValue, count |-> 0]]

\* one more call of log_to_database
Logged(s, row) == [rows |-> s.rows + 1, last |-> row]

(* observers: the cycle a monitor has just evaluated, and the runs of
   consecutive bad events with the alerts fired in them *)
NoCycle ==
    [evaluated |-> FALSE, stored |-> FALSE, success |-> FALSE, response_time_ms |-> NoValue,
     ping_threshold |-> NoValue, alert_threshold |-> NoValue, alert |-> FALSE,
     prior_failures |-> NoValue, prior_latency_alerts |-> NoValue,
     attempted |-> {}, failed |-> {}]

NewHist ==
    [last |-> NoCycle, waiting_at_shutdown |-> FALSE,
     fail_run |-> [n |-> 0, alerts |-> 0, T |-> NoValue, fixed |-> TRUE],
     lat_run |-> [n |-> 0, alerts |-> 0, T |-> NoValue, P |-> NoValue, fixed |-> TRUE]]

RunStep(run, T, alert) ==
    [run EXCEPT !.n = @ + 1,
                !.alerts = IF alert THEN @ + 1 ELSE @,
                !.T = IF run.n = 0 THEN T ELSE @,
                !.fixed = IF run.n = 0 THEN TRUE ELSE @ /\ run.T = T]

LatRunStep(run, T, P, alert) ==
    [RunStep(run, T, alert) EXCEPT
        !.P = IF run.n = 0 THEN P ELSE @,
        !.fixed = IF run.n = 0 THEN TRUE ELSE run.fixed /\ run.T = T /\ run.P = P]

\* before: the locals when the probe returns; ev: after the classification;
\* stored: whether log_to_database's insert went through; failed: the channels
\* that raised, had the branch alerted
HistCycle(h, before, ev, stored, failed) ==
    LET last == [evaluated |-> TRUE, stored |-> stored, success |-> ev.success,
                 response_time_ms |-> ev.response_time_ms,
                 ping_threshold |-> ev.ping_threshold,
                 alert_threshold |-> ev.alert_threshold, alert |-> ev.alert,
                 prior_failures |-> before.consecutive_failures,
                 prior_latency_alerts |-> before.consecutive_latency_alerts,
                 attempted |-> IF ev.alert THEN Attempted(failed) ELSE {},
                 failed |-> IF ev.alert THEN Attempted(failed) \cap failed ELSE {}]
    IN  CASE ev.status = "Ping Failure" ->
                [h EXCEPT !.last = last,
                          !.fail_run = RunStep(h.fail_run, ev.alert_threshold, ev.alert),
                          !.lat_run = NewHist.lat_run]
          [] ev.status = "High Latency" ->
                [h EXCEPT !.last = last,
                          !.fail_run = NewHist.fail_run,
                          !.lat_run = LatRunStep(h.lat_run, ev.alert_threshold,
                                                 ev.ping_threshold, ev.alert)]
          [] OTHER ->
                [h EXCEPT !.last = last,
                          !.fail_run = NewHist.fail_run,
                          !.lat_run = NewHist.lat_run]

\* a dict without one key
Del(f, k) == [x \in DOMAIN f \ {k} |-> f[x]]

\* a dict with one more key
Put(f, k, v) == [x \in DOMAIN f \cup {k} |-> IF x = k THEN v ELSE f[x]]

UnchangedSystem ==
    UNCHANGED <<file, mtime, env, active_threads, stop_events, current_urls,
                config_lock, running, proc, last_modified, pool, shutdowns, ping_data, url_statuses, flatvars>>

\* while not stop_event.is_set(): read the thresholds of this iteration
MonCheckIgnoresStop(t, cap) ==
    /\ Alive
    /\ t \in Tids
    /\ threads[t].pc = "check"
    /\ threads[t].counter <= cap
    /\ threads' = [threads EXCEPT ![t] = ReadThresholds(@, env)]
    /\ UNCHANGED <<sink, hist>>
    /\ UnchangedSystem

MonCheck(t, cap) ==
    /\ Alive
    /\ t \in Tids
    /\ threads[t].pc = "check"
    /\ IF threads[t].is_set
       THEN threads' = [threads EXCEPT ![t].pc = "done"]
       ELSE /\ threads[t].counter <= cap
            /\ threads' = [threads EXCEPT ![t] = ReadThresholds(@, env)]
    /\ UNCHANGED <<sink, hist>>
    /\ UnchangedSystem

\* the body of the loop from resolve_url_to_ip to counter += 1: a resolution
\* failure goes to the wait; otherwise ping_host, the classification, the
\* notifiers and the reset in an alerting branch, and log_to_database, which
\* returns nothing and catches what the insert raises, as each notifier does
MonCycleUnderLock(t, results, outcomes, faults) ==
    /\ Alive
    /\ t \in Tids
    /\ threads[t].pc = "cycle"
    /\ config_lock = None
    /\ \/ /\ threads' = [threads EXCEPT ![t] = Unresolved(@)]
          /\ UNCHANGED <<sink, hist>>
       \/ \E r \in results, stored \in outcomes, failed \in faults :
            LET ev == Evaluate(Resolved(threads[t]), r)
                end == AlertReset(ev)
            IN  /\ threads' = [threads EXCEPT ![t] = EndCycle(end)]
                /\ sink' = [sink EXCEPT ![t] = Logged(@, Record(end))]
                /\ hist' = [hist EXCEPT ![t] = HistCycle(@, threads[t], ev, stored, failed)]
    /\ UnchangedSystem

MonCycle(t, results, outcomes, faults) ==
    /\ Alive
    /\ t \in Tids
    /\ threads[t].pc = "cycle"
    /\ \/ /\ threads' = [threads EXCEPT ![t] = Unresolved(@)]
          /\ UNCHANGED <<sink, hist>>
       \/ \E r \in results, stored \in outcomes, failed \in faults :
            LET ev == Evaluate(Resolved(threads[t]), r)
                end == AlertReset(ev)
            IN  /\ threads' = [threads EXCEPT ![t] = EndCycle(end)]
                /\ sink' = [sink EXCEPT ![t] = Logged(@, Record(end))]
                /\ hist' = [hist EXCEPT ![t] = HistCycle(@, threads[t], ev, stored, failed)]
    /\ UnchangedSystem

\* stop_event.wait(ping_interval): True when the event is set, False on timeout;
\* the interval read at the top of the cycle is dead from here on
MonWaitSleeps(t) ==
    /\ Alive
    /\ t \in Tids
    /\ threads[t].pc = "wait"
    /\ threads' = [threads EXCEPT ![t].pc = "check", ![t].ping_interval = NoValue]
    /\ hist' = [hist EXCEPT ![t].last = NoCycle]
    /\ UNCHANGED sink
    /\ UnchangedSystem

MonWaitDeregisters(t) ==
    /\ Alive
    /\ t \in Tids
    /\ threads[t].pc = "wait"
    /\ threads' = [threads EXCEPT ![t].pc = IF threads[t].is_set THEN "done" ELSE "check",
                                  ![t].ping_interval = NoValue]
    /\ hist' = [hist EXCEPT ![t].last = NoCycle]
    /\ active_threads' = IF threads[t].is_set THEN Del(active_threads, threads[t].url)
                         ELSE active_threads
    /\ UNCHANGED sink
    /\ UNCHANGED <<file, mtime, env, stop_events, current_urls,
                   config_lock, running, proc, last_modified, pool, shutdowns, ping_data, url_statuses, flatvars>>

MonWait(t) ==
    /\ Alive
    /\ t \in Tids
    /\ threads[t].pc = "wait"
    /\ threads' = [threads EXCEPT ![t].pc = IF threads[t].is_set THEN "done" ELSE "check",
                                  ![t].ping_interval = NoValue]
    /\ hist' = [hist EXCEPT ![t].last = NoCycle]
    /\ UNCHANGED sink
    /\ UnchangedSystem

(* ------------------------- the .env file ------------------------------- *)
\* the operator rewrites .env; its modification time increases.  An edit
\* commutes with every step that does not read the file, so it is taken right
\* before one that does (the watcher's poll, or load_dotenv).
EditConfig(configs, edits) ==
    /\ Alive
    /\ mtime <= edits
    /\ \E p \in {"main", "watcher"} : proc[p].pc \in {"poll", "rc_load"}
    /\ \E c \in configs : file' = c
    /\ mtime' = mtime + 1
    /\ UNCHANGED <<env, active_threads, stop_events, current_urls, config_lock,
                   running, threads, sink, proc, last_modified, pool, shutdowns, ping_data, url_statuses, flatvars, hist>>

\* load_dotenv(override=True): the settings of .env replace those in os.environ
LoadDotenv(f) ==
    [ping_threshold |-> f.ping_threshold, alert_threshold |-> f.alert_threshold,
     ping_interval |-> f.ping_interval]

(* ------------------- reload_config, start and stop --------------------- *)
Procs == {"main", "watcher"}

\* the locals of reload_config and shutdown, and where reload_config returns to
IdleProc(pc) ==
    [pc |-> pc, new_urls |-> {}, urls_to_add |-> {}, urls_to_remove |-> {},
     todo |-> {}, url |-> None, ret |-> None]

\* urls_to_add = new_urls - self.current_urls
UrlsToAddAll(new, cur) == new

UrlsToAdd(new, cur) == new \ cur

\* urls_to_remove = self.current_urls - new_urls
UrlsToRemoveAll(new, cur) == cur

UrlsToRemove(new, cur) == cur \ new

\* with self.config_lock: blocks until the lock is free
AcquireNoWait(p) == config_lock' = p

Acquire(p) == config_lock = None /\ config_lock' = p

UnchangedMonitors == UNCHANGED <<threads, sink, hist>>

\* load_dotenv(".env", override=True) and the parse of TARGET_URLS
RcLoad(p) ==
    /\ Alive
    /\ proc[p].pc = "rc_load"
    /\ env' = LoadDotenv(file)
    /\ proc' = [proc EXCEPT ![p].new_urls = file.urls, ![p].pc = "rc_lock"]
    /\ UNCHANGED <<file, mtime, active_threads, stop_events, current_urls, config_lock,
                   running, last_modified, pool, shutdowns, ping_data, url_statuses, flatvars>>
    /\ UnchangedMonitors

\* entering "with self.config_lock" and computing the two differences
RcLock(p) ==
    /\ Alive
    /\ proc[p].pc = "rc_lock"
    /\ Acquire(p)
    /\ proc' = [proc EXCEPT
                  ![p].urls_to_add = UrlsToAdd(proc[p].new_urls, current_urls),
                  ![p].urls_to_remove = UrlsToRemove(proc[p].new_urls, current_urls),
                  ![p].todo = UrlsToRemove(proc[p].new_urls, current_urls),
                  ![p].pc = "rc_remove"]
    /\ UNCHANGED <<file, mtime, env, active_threads, stop_events, current_urls,
                   running, last_modified, pool, shutdowns, ping_data, url_statuses, flatvars>>
    /\ UnchangedMonitors

\* stop_monitoring_url up to the join: self.stop_events[url].set()
StopSet(p, u, ret) ==
    IF u \in DOMAIN stop_events
    THEN /\ threads' = [threads EXCEPT ![stop_events[u]].is_set = TRUE]
         /\ proc' = [proc EXCEPT ![p].todo = @ \ {u}, ![p].url = u,
                                 ![p].ret = ret, ![p].pc = "stop_join"]
    ELSE /\ proc' = [proc EXCEPT ![p].todo = @ \ {u}]
         /\ UNCHANGED threads

\* for url in urls_to_remove: self.stop_monitoring_url(url)
RcRemove(p) ==
    /\ Alive
    /\ proc[p].pc = "rc_remove"
    /\ IF proc[p].todo = {}
       THEN /\ proc' = [proc EXCEPT ![p].todo = proc[p].urls_to_add, ![p].pc = "rc_add"]
            /\ UNCHANGED threads
       ELSE \E u \in proc[p].todo : StopSet(p, u, "rc_remove")
    /\ UNCHANGED <<file, mtime, env, active_threads, stop_events, current_urls,
                   config_lock, running, last_modified, pool, shutdowns, ping_data, url_statuses, flatvars, sink, hist>>

\* a monitor thread inside a call that can outlast the join's 5 seconds
Blocking(th) == th.pc = "cycle"

\* join(timeout=5) returns when the thread has ended or the timeout has passed
JoinReturnsAlways(th) == TRUE

JoinReturnsWhenEnded(th) == Ended(th)

JoinReturns(th) == Ended(th) \/ Blocking(th)

\* the rest of stop_monitoring_url: join, then drop the thread and the event
StopJoinKeepsEvent(p) ==
    /\ Alive
    /\ proc[p].pc = "stop_join"
    /\ LET u == proc[p].url IN
          /\ u \in DOMAIN active_threads => JoinReturns(threads[active_threads[u]])
          /\ active_threads' = Del(active_threads, u)
          /\ stop_events' = stop_events
    /\ proc' = [proc EXCEPT ![p].url = None, ![p].ret = None, ![p].pc = proc[p].ret]
    /\ UNCHANGED <<file, mtime, env, current_urls, config_lock, running,
                   last_modified, pool, shutdowns, ping_data, url_statuses, flatvars>>
    /\ UnchangedMonitors

StopJoin(p) ==
    /\ Alive
    /\ proc[p].pc = "stop_join"
    /\ LET u == proc[p].url IN
          /\ u \in DOMAIN active_threads => JoinReturns(threads[active_threads[u]])
          /\ active_threads' = Del(active_threads, u)
          /\ stop_events' = Del(stop_events, u)
    /\ proc' = [proc EXCEPT ![p].url = None, ![p].ret = None, ![p].pc = proc[p].ret]
    /\ UNCHANGED <<file, mtime, env, current_urls, config_lock, running,
                   last_modified, pool, shutdowns, ping_data, url_statuses, flatvars>>
    /\ UnchangedMonitors

\* start_monitoring_url: a new Event and a new thread, registered and started
NewThreadCarryOver(url) ==
    LET old == {t \in Tids : threads[t].url = url} IN
    IF old = {} THEN NewThread(url)
    ELSE LET last == CHOOSE t \in old : \A o \in old : o <= t IN
         [NewThread(url) EXCEPT
            !.consecutive_failures = threads[last].consecutive_failures,
            !.consecutive_latency_alerts = threads[last].consecutive_latency_alerts,
            !.counter = threads[last].counter]

StartedThread(url) == NewThread(url)

StartMonitoringUrlAlways(u) ==
    /\ Len(threads) < MaxThreads
    /\ threads' = Append(threads, StartedThread(u))
    /\ sink' = Append(sink, NoRows)
    /\ hist' = Append(hist, NewHist)
    /\ stop_events' = Put(stop_events, u, Len(threads) + 1)
    /\ active_threads' = Put(active_threads, u, Len(threads) + 1)

\* if url in self.active_threads: return
StartMonitoringUrl(u) ==
    IF u \in DOMAIN active_threads
    THEN UNCHANGED <<active_threads, stop_events, threads, sink, hist>>
    ELSE /\ Len(threads) < MaxThreads
         /\ threads' = Append(threads, StartedThread(u))
         /\ sink' = Append(sink, NoRows)
         /\ hist' = Append(hist, NewHist)
         /\ stop_events' = Put(stop_events, u, Len(threads) + 1)
         /\ active_threads' = Put(active_threads, u, Len(threads) + 1)

\* for url in urls_to_add: self.start_monitoring_url(url)
RcAdd(p) ==
    /\ Alive
    /\ proc[p].pc = "rc_add"
    /\ IF proc[p].todo = {}
       THEN /\ proc' = [proc EXCEPT ![p].pc = "rc_commit"]
            /\ UNCHANGED <<active_threads, stop_events, threads, sink, hist>>
       ELSE \E u \in proc[p].todo :
               /\ StartMonitoringUrl(u)
               /\ proc' = [proc EXCEPT ![p].todo = @ \ {u}]
    /\ UNCHANGED <<file, mtime, env, current_urls, config_lock, running,
                   last_modified, pool, shutdowns, ping_data, url_statuses, flatvars>>

\* self.current_urls = new_urls
RcCommit(p) ==
    /\ Alive
    /\ proc[p].pc = "rc_commit"
    /\ current_urls' = proc[p].new_urls
    /\ proc' = [proc EXCEPT ![p].pc = "rc_release"]
    /\ UNCHANGED <<file, mtime, env, active_threads, stop_events, config_lock,
                   running, last_modified, pool, shutdowns, ping_data, url_statuses, flatvars>>
    /\ UnchangedMonitors

\* leaving "with self.config_lock"; reload_config returns to its caller
RcRelease(p) ==
    /\ Alive
    /\ proc[p].pc = "rc_release"
    /\ config_lock' = None
    /\ proc' = [proc EXCEPT ![p] = IdleProc(IF p = "main" THEN "start_watcher" ELSE "loop")]
    /\ UNCHANGED <<file, mtime, env, active_threads, stop_events, current_urls,
                   running, last_modified, pool, shutdowns, ping_data, url_statuses, flatvars>>
    /\ UnchangedMonitors

(* ------------------------- monitor_config ------------------------------ *)
\* __init__: self.config_thread.start()
StartWatcher ==
    /\ proc["main"].pc = "start_watcher"
    /\ proc' = [proc EXCEPT !["main"].pc = "run", !["watcher"].pc = "loop"]
    /\ UNCHANGED <<file, mtime, env, active_threads, stop_events, current_urls,
                   config_lock, running, last_modified, pool, shutdowns, ping_data, url_statuses, flatvars>>
    /\ UnchangedMonitors

\* while self.running:
WatchLoop ==
    /\ Alive
    /\ proc["watcher"].pc = "loop"
    /\ proc' = [proc EXCEPT !["watcher"].pc = IF running THEN "poll" ELSE "done"]
    /\ UNCHANGED <<file, mtime, env, active_threads, stop_events, current_urls,
                   config_lock, running, last_modified, pool, shutdowns, ping_data, url_statuses, flatvars>>
    /\ UnchangedMonitors

\* if current_modified > last_modified:
ChangedAfterBaseline(current_modified, last) == last > 0 /\ current_modified > last

Changed(current_modified, last) == current_modified > last

\* the comparison of os.path.getmtime('.env') with last_modified, then the sleep
WatchPoll ==
    /\ Alive
    /\ proc["watcher"].pc = "poll"
    /\ IF Changed(mtime, last_modified)
       THEN /\ last_modified' = mtime
            /\ proc' = [proc EXCEPT !["watcher"].pc =
                            IF mtime > 0 THEN "rc_load" ELSE "loop"]
       ELSE /\ proc' = [proc EXCEPT !["watcher"].pc = "loop"]
            /\ UNCHANGED last_modified
    /\ UNCHANGED <<file, mtime, env, active_threads, stop_events, current_urls,
                   config_lock, running, pool, shutdowns, ping_data, url_statuses, flatvars>>
    /\ UnchangedMonitors

(* ----------------------------- shutdown -------------------------------- *)
\* SIGINT or SIGTERM in the run loop: signal_handler calls shutdown, which
\* clears self.running
SdBegin ==
    /\ proc["main"].pc = "run"
    /\ running' = FALSE
    /\ proc' = [proc EXCEPT !["main"].pc = "sd_lock"]
    /\ hist' = [t \in Tids |->
                  [hist[t] EXCEPT !.waiting_at_shutdown =
                        /\ threads[t].pc = "wait"
                        /\ \A o \in Tids : threads[o].pc \in {"wait", "done"}]]
    /\ shutdowns' = shutdowns + 1
    /\ UNCHANGED <<file, mtime, env, active_threads, stop_events, current_urls,
                   config_lock, last_modified, pool, threads, sink, ping_data, url_statuses, flatvars>>

\* with self.config_lock: the list of self.current_urls is taken
SdLock ==
    /\ proc["main"].pc = "sd_lock"
    /\ Acquire("main")
    /\ proc' = [proc EXCEPT !["main"].todo = current_urls, !["main"].pc = "sd_stop"]
    /\ UNCHANGED <<file, mtime, env, active_threads, stop_events, current_urls,
                   running, last_modified, pool, shutdowns, ping_data, url_statuses, flatvars>>
    /\ UnchangedMonitors

\* for url in list(self.current_urls): self.stop_monitoring_url(url); then the
\* lock is released
SdStop ==
    /\ proc["main"].pc = "sd_stop"
    /\ IF proc["main"].todo = {}
       THEN /\ config_lock' = None
            /\ proc' = [proc EXCEPT !["main"].pc = "sd_close"]
            /\ UNCHANGED threads
       ELSE /\ \E u \in proc["main"].todo : StopSet("main", u, "sd_stop")
            /\ UNCHANGED config_lock
    /\ UNCHANGED <<file, mtime, env, active_threads, stop_events, current_urls,
                   running, last_modified, pool, shutdowns, ping_data, url_statuses, flatvars, sink, hist>>

\* DatabaseManager.initialize: self.pool = await asyncpg.create_pool(...)
CreatedPool == [created |-> TRUE, closes |-> 0]

\* DatabaseManager.close: if self.pool: await self.pool.close()
ClosePool(p) == IF p.created THEN [p EXCEPT !.closes = @ + 1] ELSE p

\* db_manager.close()
SdClose ==
    /\ proc["main"].pc = "sd_close"
    /\ pool' = ClosePool(pool)
    /\ proc' = [proc EXCEPT !["main"].pc = "sd_exit"]
    /\ UNCHANGED <<file, mtime, env, active_threads, stop_events, current_urls,
                   config_lock, running, last_modified, shutdowns, ping_data, url_statuses, flatvars>>
    /\ UnchangedMonitors

\* a further SIGINT or SIGTERM after shutdown() has returned and before
\* sys.exit(0): the handler runs again in the main thread and calls shutdown()
SdAgain ==
    /\ proc["main"].pc = "sd_exit"
    /\ shutdowns < MaxShutdowns
    /\ running' = FALSE
    /\ shutdowns' = shutdowns + 1
    /\ proc' = [proc EXCEPT !["main"].pc = "sd_lock"]
    /\ UNCHANGED <<file, mtime, env, active_threads, stop_events, current_urls,
                   config_lock, last_modified, pool, ping_data, url_statuses, flatvars>>
    /\ UnchangedMonitors

\* signal_handler: sys.exit(0)
SdExit ==
    /\ proc["main"].pc = "sd_exit"
    /\ proc' = [proc EXCEPT !["main"].pc = "exited"]
    /\ UNCHANGED <<file, mtime, env, active_threads, stop_events, current_urls,
                   config_lock, running, last_modified, pool, shutdowns, ping_data, url_statuses, flatvars>>
    /\ UnchangedMonitors

(* ------------------- PingMonitor.py: the flat-file variant ------------- *)
\* TARGET_URLS: the names between the commas of the setting, an empty one among them
TARGET_URLS == <<"a", "", "b">>

\* ALERT_THRESHOLD and PING_THRESHOLD, read once when the module is loaded
FlatAlertThreshold == 2
FlatPingThreshold == 100

\* what one iteration of monitor_url finds: no address, no answer, or a latency
FlatProbeResults ==
    {[resolved |-> FALSE, success |-> FALSE, latency |-> NoValue],
     [resolved |-> TRUE, success |-> FALSE, latency |-> NoValue],
     [resolved |-> TRUE, success |-> TRUE, latency |-> 90],
     [resolved |-> TRUE, success |-> TRUE, latency |-> 150]}

\* the file CSV_FILENAME while it is absent; csv_lock while it is free
NoFile == [exists |-> FALSE, pieces |-> <<>>]
NoThread == 0

\* a row as writerow gets it: the cells URL, Status and Count, written to the
\* file in RowParts pieces; the header has their titles (that of Count is no number)
RowParts == 2
HeaderRow == [url |-> "URL", status |-> "Status", count |-> NoValue]
DataRow(th) == [url |-> th.url, status |-> th.status, count |-> th.counter]
Piece(row, k) == [row |-> row, part |-> k]

\* threading.Thread(target=monitor_url, args=(url,)): the locals of monitor_url
NewFlatThread(url) ==
    [url |-> url, pc |-> "probe", counter |-> 1, consecutive_failures |-> 0,
     consecutive_latency_alerts |-> 0, status |-> None, file_exists |-> FALSE,
     part |-> 1]

FlatTids == 1..Len(flat_threads)

\* the module is loaded and start_monitoring has not been called
FlatNotStarted ==
    /\ csv_lock = NoThread
    /\ csvfile = NoFile
    /\ flat_threads = <<>>
    /\ flat_main = 1

\* everything of the monitoring process with dynamic configuration, and csv_server
UnchangedDynamic ==
    UNCHANGED <<file, mtime, env, active_threads, stop_events, current_urls,
                config_lock, running, threads, sink, proc, last_modified, pool,
                shutdowns, hist, ping_data, url_statuses>>

\* start_monitoring: one turn of its for loop; an empty name starts no thread
StartMonitoring ==
    /\ flat_main <= Len(TARGET_URLS)
    /\ flat_main' = flat_main + 1
    /\ flat_threads' = IF TARGET_URLS[flat_main] # ""
                       THEN Append(flat_threads, NewFlatThread(TARGET_URLS[flat_main]))
                       ELSE flat_threads
    /\ UNCHANGED <<csv_lock, csvfile>>
    /\ UnchangedDynamic

\* monitor_url, not success: "Ping Failure"
FlatFailed(th) ==
    [th EXCEPT !.status = "Ping Failure",
               !.consecutive_failures =
                   IF @ + 1 >= FlatAlertThreshold THEN 0 ELSE @ + 1,
               !.consecutive_latency_alerts = 0]

\* monitor_url, success: "High Latency" above PING_THRESHOLD, else "Success"
FlatSucceeded(th, latency) ==
    IF latency > FlatPingThreshold
    THEN [th EXCEPT !.status = "High Latency",
                    !.consecutive_failures = 0,
                    !.consecutive_latency_alerts =
                        IF @ + 1 >= FlatAlertThreshold THEN 0 ELSE @ + 1]
    ELSE [th EXCEPT !.status = "Success",
                    !.consecutive_failures = 0,
                    !.consecutive_latency_alerts = 0]

\* monitor_url from the top of its loop to the call of log_to_csv; without an
\* address it sleeps and starts over
FlatProbe(i, cap) ==
    /\ i \in FlatTids
    /\ flat_threads[i].pc = "probe"
    /\ flat_threads[i].counter <= cap
    /\ \E r \in FlatProbeResults :
          flat_threads' =
              [flat_threads EXCEPT ![i] =
                  IF ~r.resolved THEN [@ EXCEPT !.pc = "sleep"]
                  ELSE [(IF r.success THEN FlatSucceeded(@, r.latency)
                                      ELSE FlatFailed(@))
                        EXCEPT !.pc = "log"]]
    /\ UNCHANGED <<csv_lock, csvfile, flat_main>>
    /\ UnchangedDynamic

\* log_to_csv, with csv_lock: entered without the lock
LogUnlocked(i) ==
    /\ i \in FlatTids
    /\ flat_threads[i].pc = "log"
    /\ flat_threads' = [flat_threads EXCEPT ![i].pc = "isfile"]
    /\ UNCHANGED <<csv_lock, csvfile, flat_main>>
    /\ UnchangedDynamic

\* log_to_csv, with csv_lock: blocks until the lock is free
LogAcquire(i) ==
    /\ i \in FlatTids
    /\ flat_threads[i].pc = "log"
    /\ csv_lock = NoThread
    /\ csv_lock' = i
    /\ flat_threads' = [flat_threads EXCEPT ![i].pc = "isfile"]
    /\ UNCHANGED <<csvfile, flat_main>>
    /\ UnchangedDynamic

\* file_exists = os.path.isfile(CSV_FILENAME)
LogIsFile(i) ==
    /\ i \in FlatTids
    /\ flat_threads[i].pc = "isfile"
    /\ flat_threads' = [flat_threads EXCEPT ![i].file_exists = csvfile.exists,
                                            ![i].pc = "open"]
    /\ UNCHANGED <<csv_lock, csvfile, flat_main>>
    /\ UnchangedDynamic

\* open(CSV_FILENAME, "a"): creates the file when it is absent; the header is
\* written first if isfile found no file
LogOpen(i) ==
    /\ i \in FlatTids
    /\ flat_threads[i].pc = "open"
    /\ csvfile' = [csvfile EXCEPT !.exists = TRUE]
    /\ flat_threads' = [flat_threads EXCEPT
                            ![i].pc = IF flat_threads[i].file_exists
                                      THEN "row" ELSE "header",
                            ![i].part = 1]
    /\ UNCHANGED <<csv_lock, flat_main>>
    /\ UnchangedDynamic

\* writer.writerow: the next piece of the header or of the data row goes to
\* the end of the file
LogWriteRow(i) ==
    /\ i \in FlatTids
    /\ flat_threads[i].pc \in {"header", "row"}
    /\ LET th == flat_threads[i]
           row == IF th.pc = "header" THEN HeaderRow ELSE DataRow(th)
       IN  /\ csvfile' = [csvfile EXCEPT !.pieces = Append(@, Piece(row, th.part))]
           /\ flat_threads' =
                  [flat_threads EXCEPT ![i] =
                      IF th.part < RowParts THEN [@ EXCEPT !.part = @ + 1]
                      ELSE [@ EXCEPT !.part = 1,
                                     !.pc = IF th.pc = "header" THEN "row" ELSE "close"]]
    /\ UNCHANGED <<csv_lock, flat_main>>
    /\ UnchangedDynamic

\* the end of both with blocks: the file is closed and csv_lock released (if
\* this thread holds it); back in monitor_url, counter += 1
LogClose(i) ==
    /\ i \in FlatTids
    /\ flat_threads[i].pc = "close"
    /\ csv_lock' = IF csv_lock = i THEN NoThread ELSE csv_lock
    /\ flat_threads' = [flat_threads EXCEPT ![i].pc = "sleep",
                                            ![i].counter = @ + 1]
    /\ UNCHANGED <<csvfile, flat_main>>
    /\ UnchangedDynamic

\* time.sleep(PING_INTERVAL), then the top of the loop
FlatSleep(i) ==
    /\ i \in FlatTids
    /\ flat_threads[i].pc = "sleep"
    /\ flat_threads' = [flat_threads EXCEPT ![i].pc = "probe"]
    /\ UNCHANGED <<csv_lock, csvfile, flat_main>>
    /\ UnchangedDynamic

(* --------------------------- specifications ---------------------------- *)
\* DynamicPingMonitor.__init__ up to the call of reload_config
InitWith(configs) ==
    /\ file \in configs
    /\ mtime = 1
    /\ env = LoadDotenv(file)
    /\ active_threads = <<>>
    /\ stop_events = <<>>
    /\ current_urls = {}
    /\ config_lock = None
    /\ running = TRUE
    /\ threads = <<>>
    /\ sink = <<>>
    /\ hist = <<>>
    /\ proc = [p \in Procs |-> IdleProc(IF p = "main" THEN "rc_load" ELSE "unstarted")]
    /\ last_modified = 0
    /\ pool = CreatedPool
    /\ shutdowns = 0
    /\ ping_data = <<>>
    /\ url_statuses = <<>>
    /\ FlatNotStarted

MonitorStep(t, cap, results, outcomes, faults) ==
    \/ MonCheck(t, cap)
    \/ MonCycle(t, results, outcomes, faults)
    \/ MonWait(t)

ReloadStep(p) ==
    \/ RcLoad(p)
    \/ RcLock(p)
    \/ RcRemove(p)
    \/ StopJoin(p)
    \/ RcAdd(p)
    \/ RcCommit(p)
    \/ RcRelease(p)

ShutdownStep == SdBegin \/ SdLock \/ SdStop \/ SdClose \/ SdAgain \/ SdExit

\* the whole system: two targets that are down, the thresholds fixed; .env names
\* one target when the process starts
Init == InitWith({c \in SysConfigs : c.urls = {"a"}})

Next ==
    \/ EditConfig(SysConfigs, MaxEdits)
    \/ \E p \in Procs : ReloadStep(p)
    \/ StartWatcher
    \/ WatchLoop
    \/ WatchPoll
    \/ ShutdownStep
    \/ \E t \in 1..MaxThreads : MonitorStep(t, MaxAttempts, SysProbeResults, SysSinkOutcomes, NoChannelFaults)

Spec == Init /\ [][Next]_vars

\* one target under every threshold setting and probe result, from the state
\* the constructor leaves when .env names that target: its monitor started, the
\* watcher started, the main thread in run().  The target is never removed, so
\* of reload_config only the steps that do not stop a monitor can be taken.
MonInit ==
    /\ file \in MonConfigs
    /\ mtime = 1
    /\ env = LoadDotenv(file)
    /\ active_threads = [u \in {"a"} |-> 1]
    /\ stop_events = [u \in {"a"} |-> 1]
    /\ current_urls = {"a"}
    /\ config_lock = None
    /\ running = TRUE
    /\ threads = <<NewThread("a")>>
    /\ sink = <<NoRows>>
    /\ hist = <<NewHist>>
    /\ proc = [p \in Procs |-> IdleProc(IF p = "main" THEN "run" ELSE "loop")]
    /\ last_modified = 0
    /\ pool = CreatedPool
    /\ shutdowns = 0
    /\ ping_data = <<>>
    /\ url_statuses = <<>>
    /\ FlatNotStarted

MonNext ==
    \/ EditConfig(MonConfigs, MaxEdits)
    \/ WatchLoop
    \/ WatchPoll
    \/ RcLoad("watcher")
    \/ RcLock("watcher")
    \/ RcRemove("watcher")
    \/ RcAdd("watcher")
    \/ RcCommit("watcher")
    \/ RcRelease("watcher")
    \/ \E t \in 1..MaxThreads : MonitorStep(t, MaxRun, ProbeResults, SinkOutcomes, NoChannelFaults)

MonitorSpec == MonInit /\ [][MonNext]_vars

\* one target with faults: .env may carry a malformed threshold and may name no
\* target, each notifier and the insert may raise, the probe may fail.  The
\* watcher reloads, so the monitor is stopped and started again.
FaultInit ==
    /\ file \in {c \in FaultConfigs : c.urls = {"a"}}
    /\ mtime = 1
    /\ env = LoadDotenv(file)
    /\ active_threads = [u \in {"a"} |-> 1]
    /\ stop_events = [u \in {"a"} |-> 1]
    /\ current_urls = {"a"}
    /\ config_lock = None
    /\ running = TRUE
    /\ threads = <<NewThread("a")>>
    /\ sink = <<NoRows>>
    /\ hist = <<NewHist>>
    /\ proc = [p \in Procs |-> IdleProc(IF p = "main" THEN "run" ELSE "loop")]
    /\ last_modified = 0
    /\ pool = CreatedPool
    /\ shutdowns = 0
    /\ ping_data = <<>>
    /\ url_statuses = <<>>
    /\ FlatNotStarted

FaultNext ==
    \/ EditConfig(FaultConfigs, MaxEdits)
    \/ WatchLoop
    \/ WatchPoll
    \/ ReloadStep("watcher")
    \/ \E t \in 1..MaxThreads : MonitorStep(t, MaxShortRun, ShortProbeResults, SinkOutcomes, ChannelFaults)

FaultSpec == FaultInit /\ [][FaultNext]_vars

\* one target whose settings the operator changes while it is monitored: every
\* value a cycle reads takes two values
ReloadInit ==
    /\ file \in ReloadConfigs
    /\ mtime = 1
    /\ env = LoadDotenv(file)
    /\ active_threads = [u \in {"a"} |-> 1]
    /\ stop_events = [u \in {"a"} |-> 1]
    /\ current_urls = {"a"}
    /\ config_lock = None
    /\ running = TRUE
    /\ threads = <<NewThread("a")>>
    /\ sink = <<NoRows>>
    /\ hist = <<NewHist>>
    /\ proc = [p \in Procs |-> IdleProc(IF p = "main" THEN "run" ELSE "loop")]
    /\ last_modified = 0
    /\ pool = CreatedPool
    /\ shutdowns = 0
    /\ ping_data = <<>>
    /\ url_statuses = <<>>
    /\ FlatNotStarted

ReloadNext ==
    \/ EditConfig(ReloadConfigs, MaxEdits)
    \/ WatchLoop
    \/ WatchPoll
    \/ RcLoad("watcher")
    \/ RcLock("watcher")
    \/ RcRemove("watcher")
    \/ RcAdd("watcher")
    \/ RcCommit("watcher")
    \/ RcRelease("watcher")
    \/ \E t \in 1..MaxThreads :
          MonitorStep(t, MaxShortRun, ShortProbeResults, SysSinkOutcomes, NoChannelFaults)

ReloadSpec == ReloadInit /\ [][ReloadNext]_vars

\* start_monitoring_url by itself: called for any name, registered or not, in
\* any state of a process that monitors one target
StartCall(u) ==
    /\ Alive
    /\ StartMonitoringUrl(u)
    /\ proc' = [proc EXCEPT !["main"].url = u]
    /\ UNCHANGED <<file, mtime, env, current_urls, config_lock, running,
                   last_modified, pool, shutdowns, ping_data, url_statuses, flatvars>>

StartNext ==
    \/ \E u \in Urls : StartCall(u)
    \/ \E t \in 1..MaxThreads :
          MonitorStep(t, MaxShortRun, ShortProbeResults, SysSinkOutcomes, NoChannelFaults)

StartSpec == MonInit /\ [][StartNext]_vars

(* --------------------- csv_server: the status view --------------------- *)
\* pings[:50]
RecentPings == 50

\* the rows the monitors write: status and response time
RowKinds ==
    {[status |-> "Success", response_time |-> 90],
     [status |-> "Success", response_time |-> 40],
     [status |-> "Success", response_time |-> NoValue],
     [status |-> "High Latency", response_time |-> 150],
     [status |-> "Ping Failure", response_time |-> NoValue]}

\* n rows of one kind for one url, written one after the other from time first on
Block(url, kind, n, first) ==
    [i \in 1..n |-> [timestamp |-> first + i - 1, url |-> url,
                     status |-> kind.status, response_time |-> kind.response_time]]

\* the rows of kinds ks for one url, in this order, from time first on
RowsOf(url, ks, first) ==
    [i \in 1..Len(ks) |-> [timestamp |-> first + i - 1, url |-> url,
                           status |-> ks[i].status,
                           response_time |-> ks[i].response_time]]

\* sequences of at most n elements of S
SeqsUpTo(S, n) == UNION {[1..k -> S] : k \in 0..n}

\* what read_csv_data returns: the file is appended to, so its rows are in the
\* order of their timestamps.  Old rows of one kind, then a long stretch of one
\* kind that fills the window or nearly, then the latest rows, each of any
\* kind; rows of another target may stand before and after them.
PingLogs ==
    {LET head == Block("b", other, n, 1)
         old == Block("a", ko, i, n + 1)
         mid == Block("a", km, j, n + i + 1)
         tail == RowsOf("a", ks, n + i + j + 1)
         foot == Block("b", other, n, n + i + j + Len(ks) + 1)
     IN  head \o old \o mid \o tail \o foot :
        ko \in RowKinds, km \in RowKinds,
        i \in 0..MaxOld,
        j \in {0, RecentPings - 2, RecentPings - 1, RecentPings},
        ks \in SeqsUpTo(RowKinds, MaxTail),
        other \in {[status |-> "Ping Failure", response_time |-> NoValue]},
        n \in 0..1}

\* url_groups[url]: the rows of one url, in file order
UrlGroup(data, url) == SelectSeq(data, LAMBDA p : p.url = url)

\* pings.sort(key=lambda x: x['timestamp'], reverse=True): later rows first;
\* the sort is stable, rows of one timestamp keep the order they had.  The
\* place of row i in the sorted list:
PlaceRecentFirst(pings, i) ==
    1 + Cardinality({j \in 1..Len(pings) : pings[j].timestamp > pings[i].timestamp})
      + Cardinality({j \in 1..(i - 1) : pings[j].timestamp = pings[i].timestamp})

SortRecentFirst(pings) ==
    LET n == Len(pings)
        place == SubSeq([i \in 1..n |-> PlaceRecentFirst(pings, i)], 1, n)
    IN  SubSeq([k \in 1..n |-> pings[CHOOSE i \in 1..n : place[i] = k]], 1, n)

\* pings[:n]
Slice(pings, n) == SubSeq(pings, 1, IF Len(pings) < n THEN Len(pings) ELSE n)

\* recent_pings = pings[:50]
Recent(pings) == Slice(pings, RecentPings)

\* successful_pings = [p for p in recent_pings if p['status'] == 'Success']
ReachablePings(recent) == SelectSeq(recent, LAMBDA p : p.status # "Ping Failure")

SuccessfulPings(recent) == SelectSeq(recent, LAMBDA p : p.status = "Success")

\* a quotient of two floats, kept as the fraction it is; None is 0/0
Fraction(n, d) == [num |-> n, den |-> d]
NoFraction == Fraction(0, 0)

\* sum(latencies), added up by halves
RECURSIVE SumOf(_)
SumOf(latencies) ==
    IF Len(latencies) = 0 THEN 0
    ELSE IF Len(latencies) = 1 THEN latencies[1]
    ELSE LET h == Len(latencies) \div 2
         IN  SumOf(SubSeq(latencies, 1, h)) + SumOf(SubSeq(latencies, h + 1, Len(latencies)))

\* avg_latency: sum(latencies) / len(latencies) over the successful rows that
\* have a response time, None when there is none
AverageLatency(successful) ==
    LET with == SelectSeq(successful, LAMBDA p : p.response_time # NoValue)
        latencies == [i \in 1..Len(with) |-> with[i].response_time]
    IN  IF latencies = <<>> THEN NoFraction
        ELSE Fraction(SumOf(latencies), Len(latencies))

\* for ping in pings: if status == 'Ping Failure': += 1, else: break
\* counts the rows before the first that is no Ping Failure
LeadingFailures(pings) ==
    Cardinality({k \in 1..Len(pings) :
                    \A j \in 1..k : pings[j].status = "Ping Failure"})

\* one url_status of aggregate_url_statuses
UrlStatus(url, data) ==
    LET pings == SortRecentFirst(UrlGroup(data, url))
        recent_pings == Recent(pings)
        successful_pings == SuccessfulPings(recent_pings)
    IN  [url |-> url,
         latest_ping |-> pings[1],
         uptime_percentage |-> Fraction(100 * Len(successful_pings), Len(recent_pings)),
         average_response_time |-> AverageLatency(successful_pings),
         consecutive_failures |-> LeadingFailures(pings),
         total_pings |-> Len(pings),
         recent_pings |-> recent_pings]

\* aggregate_url_statuses: one url_status for each url that has a row
AggregateUrlStatuses(data) ==
    [url \in {data[i].url : i \in DOMAIN data} |-> UrlStatus(url, data)]

\* GET /url-statuses: read_csv_data, then aggregate_url_statuses
ServeUrlStatuses ==
    /\ url_statuses' = AggregateUrlStatuses(ping_data)
    /\ UNCHANGED <<file, mtime, env, active_threads, stop_events, current_urls,
                   config_lock, running, threads, sink, proc, last_modified, pool,
                   shutdowns, hist, ping_data, flatvars>>

\* the server by itself, over every log; the monitoring process is not running
ServerInit ==
    /\ ping_data \in PingLogs
    /\ url_statuses = <<>>
    /\ FlatNotStarted
    /\ file = [urls |-> {}, ping_threshold |-> 100, alert_threshold |-> 2,
               ping_interval |-> 30]
    /\ mtime = 1
    /\ env = LoadDotenv(file)
    /\ active_threads = <<>>
    /\ stop_events = <<>>
    /\ current_urls = {}
    /\ config_lock = None
    /\ running = FALSE
    /\ threads = <<>>
    /\ sink = <<>>
    /\ hist = <<>>
    /\ proc = [p \in Procs |-> IdleProc(IF p = "main" THEN "exited" ELSE "unstarted")]
    /\ last_modified = 0
    /\ pool = CreatedPool
    /\ shutdowns = 0

ServerNext == ServeUrlStatuses

ServerSpec == ServerInit /\ [][ServerNext]_vars

\* the flat-file variant by itself: the file is absent when the module is
\* loaded; the process with dynamic configuration is not running
CsvInit ==
    /\ FlatNotStarted
    /\ ping_data = <<>>
    /\ url_statuses = <<>>
    /\ file = [urls |-> {}, ping_threshold |-> 100, alert_threshold |-> 2,
               ping_interval |-> 30]
    /\ mtime = 1
    /\ env = LoadDotenv(file)
    /\ active_threads = <<>>
    /\ stop_events = <<>>
    /\ current_urls = {}
    /\ config_lock = None
    /\ running = FALSE
    /\ threads = <<>>
    /\ sink = <<>>
    /\ hist = <<>>
    /\ proc = [p \in Procs |-> IdleProc("unstarted")]
    /\ last_modified = 0
    /\ pool = CreatedPool
    /\ shutdowns = 0

CsvNext ==
    \/ StartMonitoring
    \/ \E i \in 1..Len(TARGET_URLS) :
          \/ FlatProbe(i, MaxRows)
          \/ LogAcquire(i)
          \/ LogIsFile(i)
          \/ LogOpen(i)
          \/ LogWriteRow(i)
          \/ LogClose(i)
          \/ FlatSleep(i)

CsvSpec == CsvInit /\ [][CsvNext]_vars

\* one target that the operator removes and names again, under thresholds that
\* alert at every bad probe or are malformed, with the scheduling the platform
\* gives: the watcher keeps running and a monitor outside its blocking calls
\* keeps running
CancelNext ==
    \/ EditConfig(FaultConfigs, MaxEdits)
    \/ WatchLoop
    \/ WatchPoll
    \/ ReloadStep("watcher")
    \/ \E t \in 1..MaxThreads :
          MonitorStep(t, MaxShortRun, ShortProbeResults, SysSinkOutcomes, NoChannelFaults)

CancelFairness ==
    /\ WF_vars(WatchLoop \/ WatchPoll \/ ReloadStep("watcher"))
    /\ \A t \in 1..MaxThreads : WF_vars(MonCheck(t, MaxShortRun) \/ MonWait(t))

CancelSpec == FaultInit /\ [][CancelNext]_vars /\ CancelFairness

\* the whole system under the scheduling the platform gives: the main thread
\* and the watcher thread keep running, a monitor outside its blocking calls
\* keeps running (a blocking call may never return), and a signal may never
\* come and comes at most once.  The operator edits .env fewer times than there are threads to start.
MainStep ==
    \/ ReloadStep("main")
    \/ StartWatcher
    \/ SdLock
    \/ SdStop
    \/ SdClose
    \/ SdExit

WatcherStep ==
    \/ WatchLoop
    \/ WatchPoll
    \/ ReloadStep("watcher")

LiveNext ==
    \/ EditConfig(SysConfigs, MaxThreads - 1)
    \/ MainStep
    \/ SdBegin
    \/ WatcherStep
    \/ \E t \in 1..MaxThreads : MonitorStep(t, MaxAttempts, SysProbeResults, SysSinkOutcomes, NoChannelFaults)

Fairness ==
    /\ WF_vars(MainStep)
    /\ WF_vars(WatcherStep)
    /\ \A t \in 1..MaxThreads : WF_vars(MonCheck(t, MaxAttempts) \/ MonWait(t))

LiveSpec == Init /\ [][LiveNext]_vars /\ Fairness

(* ======================= the alerting counters ========================= *)
\* the run of probe failures a monitor is in, when its threshold has stayed fixed
InFailRun(t) ==
    /\ hist[t].fail_run.n >= 1
    /\ hist[t].fail_run.fixed
    /\ hist[t].fail_run.T >= 1

InLatRun(t) ==
    /\ hist[t].lat_run.n >= 1
    /\ hist[t].lat_run.fixed
    /\ hist[t].lat_run.T >= 1

\* C1: after N consecutive probe failures counted from consecutive_failures = 0
\* under a fixed alert threshold T >= 1, floor(N / T) failure alerts have fired
\* and consecutive_failures is N mod T.
C1_FailureAlertEveryThreshold ==
    \A t \in Tids :
        InFailRun(t) =>
            /\ hist[t].fail_run.alerts = hist[t].fail_run.n \div hist[t].fail_run.T
            /\ threads[t].consecutive_failures = hist[t].fail_run.n % hist[t].fail_run.T

\* four failures in a row under T = 2: two alerts, the counter back at 0
C1_Witness ==
    \E t \in Tids :
        /\ InFailRun(t)
        /\ hist[t].fail_run.T = 2
        /\ hist[t].fail_run.n = 4
        /\ hist[t].fail_run.alerts = 2
        /\ threads[t].consecutive_failures = 0

\* C2: after M consecutive successes above a fixed PING_THRESHOLD, counted from
\* consecutive_latency_alerts = 0 under a fixed alert threshold T >= 1,
\* floor(M / T) latency alerts have fired and the counter is M mod T; the alert
\* fires in exactly the cycles where M is a multiple of T.
C2_LatencyAlertEveryThreshold ==
    \A t \in Tids :
        InLatRun(t) =>
            LET r == hist[t].lat_run IN
            /\ r.alerts = r.n \div r.T
            /\ threads[t].consecutive_latency_alerts = r.n % r.T
            /\ hist[t].last.evaluated => (hist[t].last.alert <=> r.n % r.T = 0)

\* four slow successes in a row under T = 2: two alerts, the counter back at 0
C2_Witness ==
    \E t \in Tids :
        /\ InLatRun(t)
        /\ hist[t].lat_run.T = 2
        /\ hist[t].lat_run.n = 4
        /\ hist[t].lat_run.alerts = 2
        /\ hist[t].last.alert
        /\ threads[t].consecutive_latency_alerts = 0

\* the spec's scenario: T = 3, latencies 150, 120, 90, 200 against 100 leave the
\* counter at 1 after the fourth cycle with no alert in the run
C2_Scenario ==
    \E t \in Tids :
        /\ InLatRun(t)
        /\ hist[t].lat_run.T = 3
        /\ hist[t].lat_run.n = 1
        /\ hist[t].lat_run.alerts = 0
        /\ threads[t].counter = 5
        /\ threads[t].consecutive_latency_alerts = 1

\* a monitor whose cycle has just been evaluated and logged
Evaluated(t) == hist[t].last.evaluated

\* C3 as claimed: after any cycle whose probe succeeded both counters are 0
C3_AnySuccessResetsBoth ==
    \A t \in Tids :
        Evaluated(t) /\ hist[t].last.success =>
            /\ threads[t].consecutive_failures = 0
            /\ threads[t].consecutive_latency_alerts = 0

\* C3, amended: a success at or under PING_THRESHOLD resets both counters
\* whatever they were; a success above it resets consecutive_failures and counts
\* one more in consecutive_latency_alerts, which is reset only by the alert.
C3_SuccessUnderThresholdResetsBoth ==
    \A t \in Tids :
        LET th == threads[t]
            c == hist[t].last
        IN  Evaluated(t) /\ c.success =>
                /\ th.consecutive_failures = 0
                /\ c.response_time_ms <= c.ping_threshold
                       => th.consecutive_latency_alerts = 0
                /\ c.response_time_ms > c.ping_threshold
                       => th.consecutive_latency_alerts =
                            IF c.prior_latency_alerts + 1 >= c.alert_threshold
                            THEN 0 ELSE c.prior_latency_alerts + 1

\* a success under the threshold that found the latency counter at 2
C3_Witness ==
    \E t \in Tids :
        /\ Evaluated(t)
        /\ hist[t].last.success
        /\ hist[t].last.response_time_ms <= hist[t].last.ping_threshold
        /\ hist[t].last.prior_latency_alerts = 2
        /\ threads[t].consecutive_latency_alerts = 0
        /\ threads[t].consecutive_failures = 0

\* the status kind of a probe result under a threshold
StatusKind(success, response_time_ms, ping_threshold) ==
    IF ~success THEN "Ping Failure"
    ELSE IF response_time_ms > ping_threshold THEN "High Latency"
    ELSE "Success"

\* C4: the status of the row a cycle logs is decided by the probe result and
\* the PING_THRESHOLD read in that cycle alone (a latency equal to the threshold
\* is a Success); a failure zeroes the latency counter and a slow success zeroes
\* the failure counter.
C4_StatusFromProbeAndThreshold ==
    \A t \in Tids :
        LET th == threads[t]
            c == hist[t].last
        IN  Evaluated(t) =>
                /\ sink[t].last.status =
                       StatusKind(c.success, c.response_time_ms, c.ping_threshold)
                /\ sink[t].last.count = th.counter - 1
                /\ ~c.success => th.consecutive_latency_alerts = 0
                /\ c.success /\ c.response_time_ms > c.ping_threshold
                       => th.consecutive_failures = 0

\* a latency equal to the threshold logged as Success after a failure
C4_Witness ==
    \E t \in Tids :
        /\ Evaluated(t)
        /\ hist[t].last.success
        /\ hist[t].last.response_time_ms = hist[t].last.ping_threshold
        /\ sink[t].last.status = "Success"
        /\ hist[t].last.prior_failures = 1

(* ===================== the target set and its lock ===================== *)
Running(t) == ~Ended(threads[t])

\* C5 as claimed: at most one monitor loop that has not exited per target name
C5_OneLoopPerName ==
    \A u \in Urls : Cardinality({t \in Tids : threads[t].url = u /\ Running(t)}) <= 1

\* the positions of reload_config and shutdown inside "with self.config_lock"
InCritical(p) ==
    proc[p].pc \in {"rc_remove", "stop_join", "rc_add", "rc_commit", "rc_release", "sd_stop"}

TargetSet == <<active_threads, stop_events, current_urls>>

Tokens == [t \in Tids |-> threads[t].is_set]

\* C6: reload_config and shutdown hold config_lock from the read of
\* current_urls to the end of their stops and starts (and the commit), so they
\* are never inside that section together; and every change of active_threads,
\* stop_events or current_urls, every thread start and every stop_event.set()
\* is a step taken with the lock held.
C6_TargetSetUnderLock ==
    /\ [](\A p \in Procs : InCritical(p) => config_lock = p)
    /\ [][(TargetSet' # TargetSet \/ Len(threads') # Len(threads)
              \/ \E t \in Tids : threads'[t].is_set # threads[t].is_set)
            => /\ config_lock \in Procs
               /\ config_lock' = config_lock
               /\ InCritical(config_lock)
               /\ proc'[config_lock] # proc[config_lock]]_vars

\* a reload that starts a monitor while shutdown waits for the lock
C6_Witness ==
    /\ proc["watcher"].pc = "rc_commit"
    /\ proc["watcher"].urls_to_add # {}
    /\ config_lock = "watcher"
    /\ proc["main"].pc = "sd_lock"

\* reload_config at its end, the lock still held
Reconciled(p) == proc[p].pc = "rc_release"

\* C7 as claimed: when a reconciliation for D completes, the registered names
\* (threads, events, current_urls) are exactly D
C7_RegisteredEqualsDesired ==
    \A p \in Procs :
        Reconciled(p) =>
            /\ DOMAIN active_threads = proc[p].new_urls
            /\ DOMAIN stop_events = proc[p].new_urls
            /\ current_urls = proc[p].new_urls

\* the same, for the reconciliations that end before shutdown has taken the lock
C7_BeforeShutdown ==
    \A p \in Procs :
        Reconciled(p) /\ proc["main"].pc \notin {"sd_close", "sd_exit", "exited"} =>
            /\ DOMAIN active_threads = proc[p].new_urls
            /\ DOMAIN stop_events = proc[p].new_urls
            /\ current_urls = proc[p].new_urls

\* C8: a reconciliation whose desired set is the current set starts nothing,
\* sets no event and leaves active_threads, stop_events and current_urls as
\* they are.
C8_IdenticalSetNoStartNoStop ==
    [][\A p \in Procs :
          /\ proc[p].pc \in {"rc_remove", "stop_join", "rc_add", "rc_commit"}
          /\ proc[p].ret # "sd_stop"
          /\ proc[p].new_urls = current_urls
          => /\ TargetSet' = TargetSet
             /\ Len(threads') = Len(threads)
             /\ Tokens' = Tokens]_vars

\* such a reconciliation, of a set that is not empty, at its end
C8_Witness ==
    /\ Reconciled("watcher")
    /\ proc["watcher"].new_urls = {"a", "b"}
    /\ proc["watcher"].urls_to_add = {}
    /\ proc["watcher"].urls_to_remove = {}
    /\ DOMAIN active_threads = {"a", "b"}

\* a step of reload_config by p between taking the lock and the commit
ReconcilerActs(p) ==
    /\ proc[p].pc \in {"rc_remove", "stop_join", "rc_add", "rc_commit"}
    /\ proc[p].ret # "sd_stop"
    /\ proc'[p] # proc[p]

\* C9: no step of a reconciliation touches a target that is in both the
\* current and the desired set: the same thread and event stay registered,
\* the event is not set, and the monitor's locals (the two counters and the
\* attempt counter among them) are as before the step.
C9_KeptTargetsUntouched ==
    [][\A p \in Procs :
          ReconcilerActs(p) =>
              \A u \in current_urls \cap proc[p].new_urls :
                  /\ u \in DOMAIN active_threads <=> u \in DOMAIN active_threads'
                  /\ u \in DOMAIN stop_events <=> u \in DOMAIN stop_events'
                  /\ u \in DOMAIN active_threads =>
                        /\ active_threads'[u] = active_threads[u]
                        /\ threads'[active_threads[u]] = threads[active_threads[u]]
                  /\ u \in DOMAIN stop_events =>
                        /\ stop_events'[u] = stop_events[u]
                        /\ ~threads'[stop_events[u]].is_set]_vars

\* a reconciliation that added b and kept a, whose monitor has counted a cycle
C9_Witness ==
    /\ Reconciled("watcher")
    /\ proc["watcher"].urls_to_add = {"b"}
    /\ "a" \in proc["watcher"].new_urls
    /\ "a" \in DOMAIN active_threads
    /\ threads[active_threads["a"]].counter = 2
    /\ ~threads[active_threads["a"]].is_set
    /\ "b" \in DOMAIN active_threads

\* C10: at the end of a reconciliation every removed target has its event set
\* and no entry in active_threads or stop_events; and every monitor that is
\* started, also one for a name that was monitored before, starts with both
\* counters 0, the attempt counter 1, no row logged and an event that is not set.
C10_RemovedThenFresh ==
    /\ [](\A p \in Procs :
            Reconciled(p) =>
                \A u \in proc[p].urls_to_remove :
                    /\ u \notin DOMAIN active_threads
                    /\ u \notin DOMAIN stop_events
                    /\ \A t \in Tids : threads[t].url = u => threads[t].is_set)
    /\ [][Len(threads') > Len(threads) =>
            LET new == threads'[Len(threads')] IN
            /\ Len(threads') = Len(threads) + 1
            /\ new.consecutive_failures = 0
            /\ new.consecutive_latency_alerts = 0
            /\ new.counter = 1
            /\ ~new.is_set
            /\ sink'[Len(threads')].rows = 0]_vars

\* a re-added target: its removed monitor had counted one failure and logged
\* one row; the new one starts from zero
C10_Witness ==
    /\ Len(threads) = 2
    /\ threads[1].url = threads[2].url
    /\ threads[1].is_set
    /\ threads[1].consecutive_failures = 1
    /\ threads[1].counter = 2
    /\ threads[2].counter = 1
    /\ threads[2].consecutive_failures = 0
    /\ sink[2].rows = 0
    /\ active_threads[threads[2].url] = 2

(* ========================= the configuration watcher ================== *)
\* C11: the watcher's first observation of the modification time of .env only
\* records a baseline; it calls reload_config only on a later observation whose
\* modification time is greater than the recorded one.
C11_FirstObservationIsBaseline ==
    [][(proc["watcher"].pc = "poll" /\ proc'["watcher"].pc = "rc_load") =>
            /\ last_modified > 0
            /\ mtime > last_modified]_vars

\* C12: when .env has been modified and then stays as it is, and no shutdown
\* is requested, the watcher eventually calls reload_config with the new
\* TARGET_URLS, and eventually the registered monitors are exactly those.
C12_EditEventuallyReconciled ==
    \A c \in SysConfigs :
        <>[](file = c /\ mtime > 1 /\ running) =>
            /\ <>(/\ proc["watcher"].pc = "rc_lock"
                  /\ proc["watcher"].new_urls = c.urls
                  /\ file = c
                  /\ last_modified = mtime)
            /\ <>[](/\ DOMAIN active_threads = c.urls
                    /\ DOMAIN stop_events = c.urls
                    /\ current_urls = c.urls)

\* .env edited from a to b, seen by the watcher and reconciled: b's monitor is
\* the registered one and a's has stopped
C12_Witness ==
    /\ running
    /\ mtime = 2
    /\ last_modified = 2
    /\ file.urls = {"b"}
    /\ proc["watcher"].pc = "loop"
    /\ DOMAIN active_threads = {"b"}
    /\ current_urls = {"b"}
    /\ \E t \in Tids : threads[t].url = "a" /\ threads[t].pc = "done"

(* ============================ cancellation ============================ *)
\* the alerts a monitor has fired in its current runs, and its counters
Effects(t, th, sk, h) ==
    <<th[t].counter, th[t].consecutive_failures, th[t].consecutive_latency_alerts,
      sk[t], h[t].fail_run, h[t].lat_run>>

\* C13: a monitor whose event is set while it is in stop_event.wait (after a
\* cycle or after a resolution failure) goes straight to the end of its loop:
\* its next step leaves the wait for "done", and it resolves, probes, logs and
\* alerts no more.
C13_CancelledInWaitStops ==
    [][\A t \in Tids :
          /\ threads[t].pc = "wait" /\ threads[t].is_set =>
                /\ threads'[t].pc \in {"wait", "done"}
                /\ Effects(t, threads', sink', hist') = Effects(t, threads, sink, hist)
          /\ threads[t].pc = "done" =>
                /\ threads'[t].pc = "done"
                /\ Effects(t, threads', sink', hist') = Effects(t, threads, sink, hist)]_vars

\* a monitor that logged one cycle, was cancelled and has left its loop
C13_Witness ==
    \E t \in Tids :
        /\ threads[t].pc = "done"
        /\ threads[t].is_set
        /\ threads[t].counter = 2
        /\ sink[t].rows = 1
        /\ t \notin {active_threads[u] : u \in DOMAIN active_threads}

(* ============================== shutdown ============================== *)
\* shutdown() has returned and sys.exit(0) has not yet ended the process
ShutdownReturned == proc["main"].pc = "sd_exit"

\* C14: when shutdown is invoked while every running monitor is in its wait,
\* then by the time shutdown returns every one of those monitors has left its
\* loop, active_threads and stop_events are empty, and the pool has been
\* closed exactly once.
C14_ShutdownOfWaitingMonitors ==
    ShutdownReturned /\ (\E t \in Tids : hist[t].waiting_at_shutdown) =>
        /\ \A t \in Tids : hist[t].waiting_at_shutdown => threads[t].pc = "done"
        /\ DOMAIN active_threads = {}
        /\ DOMAIN stop_events = {}
        /\ pool.closes = 1

\* a call of shutdown() made after an earlier call has returned is in progress
InRepeatedShutdown ==
    /\ shutdowns >= 2
    /\ proc["main"].pc \in {"sd_lock", "sd_stop", "stop_join", "sd_close"}

\* C15: a call of shutdown() after an earlier one has returned does not close
\* the pool again and does not set the event of, or join, a monitor that was
\* already cancelled.
C15_ShutdownIdempotent ==
    [][InRepeatedShutdown =>
          /\ pool'.closes = pool.closes
          /\ proc'["main"].pc = "stop_join" /\ proc["main"].pc = "sd_stop" =>
                ~threads[stop_events[proc'["main"].url]].is_set]_vars

\* C16: once shutdown has set self.running = False no monitor is started, and
\* once shutdown has returned no monitor is registered.
C16_NoReconciliationAfterShutdown ==
    /\ [][~running => Len(threads') = Len(threads)]_vars
    /\ [](ShutdownReturned => DOMAIN active_threads = {} /\ DOMAIN stop_events = {})

\* C17: while shutdown waits in a join, the event of every registered monitor
\* has already been set.
C17_CancelAllBeforeJoin ==
    proc["main"].pc = "stop_join" /\ proc["main"].ret = "sd_stop" =>
        \A u \in DOMAIN stop_events : threads[stop_events[u]].is_set

C19_NoRecordAfterPoolClosed ==
    [][pool.closes >= 1 => \A t \in Tids : sink'[t] = sink[t]]_vars

(* ========================== the attempt counter ======================= *)
\* C20: every evaluated cycle (Success, High Latency or Ping Failure, with or
\* without an alert, whether or not the insert went through) calls
\* log_to_database exactly once with the current counter and then adds 1 to the
\* counter; a monitor's rows carry 1, 2, 3, ... and its counter never goes down.
C20_OneRecordPerCycle ==
    /\ [](\A t \in Tids :
            /\ threads[t].counter = sink[t].rows + 1
            /\ sink[t].rows >= 1 => sink[t].last.count = sink[t].rows)
    /\ [][\A t \in Tids :
            /\ threads'[t].counter >= threads[t].counter
            /\ sink'[t].rows >= sink[t].rows
            /\ hist'[t].last.evaluated /\ ~hist[t].last.evaluated =>
                  /\ sink'[t].rows = sink[t].rows + 1
                  /\ sink'[t].last.count = threads[t].counter
                  /\ threads'[t].counter = threads[t].counter + 1
            /\ sink'[t] # sink[t] => hist'[t].last.evaluated /\ ~hist[t].last.evaluated]_vars

\* the second cycle fired an alert and its insert failed: the row carried 2 and
\* the counter is 3
C20_Witness ==
    \E t \in Tids :
        /\ Evaluated(t)
        /\ hist[t].last.alert
        /\ ~hist[t].last.stored
        /\ sink[t].rows = 2
        /\ sink[t].last.count = 2
        /\ threads[t].counter = 3

(* ========================= resolution failures ======================== *)
\* the step of monitor t that ends a cycle at a resolution failure: from inside
\* the cycle to the wait without a new attempt number
EndsUnresolved(t) ==
    /\ threads[t].pc = "cycle"
    /\ threads'[t].pc = "wait"
    /\ threads'[t].counter = threads[t].counter

\* C21: on a resolution failure the monitor hands a Resolution Failure row to
\* the sink for that cycle before it waits and retries.
C21_ResolutionFailureRecorded ==
    [][\A t \in Tids :
          EndsUnresolved(t) =>
              /\ sink'[t].rows = sink[t].rows + 1
              /\ sink'[t].last.status = "Resolution Failure"
              /\ sink'[t].last.url = threads[t].url]_vars

\* monitor t has just ended a cycle at a resolution failure and is in its wait
JustUnresolved(t) == threads[t].pc = "wait" /\ ~Evaluated(t)

\* C22: a cycle that ends at a resolution failure leaves both counters, the
\* attempt number, the sink and the runs of failures and of slow successes as
\* they were, so it fires no alert; a run of probe failures that only
\* resolution failures interrupt still counts toward the same failure alert.
C22_ResolutionFailureNeutral ==
    /\ [][\A t \in Tids :
             EndsUnresolved(t) =>
                 /\ threads'[t].consecutive_failures = threads[t].consecutive_failures
                 /\ threads'[t].consecutive_latency_alerts =
                        threads[t].consecutive_latency_alerts
                 /\ ~threads'[t].alert
                 /\ sink'[t] = sink[t]
                 /\ hist'[t].fail_run = hist[t].fail_run
                 /\ hist'[t].lat_run = hist[t].lat_run]_vars
    /\ [](\A t \in Tids :
             JustUnresolved(t) /\ InFailRun(t) =>
                 /\ threads[t].consecutive_failures =
                        hist[t].fail_run.n % hist[t].fail_run.T
                 /\ hist[t].fail_run.alerts =
                        hist[t].fail_run.n \div hist[t].fail_run.T)

\* a resolution failure inside a run of two probe failures under threshold 3:
\* the counter still stands at 2, one short of the alert
C22_Witness ==
    /\ JustUnresolved(1)
    /\ InFailRun(1)
    /\ hist[1].fail_run.n = 2
    /\ hist[1].fail_run.T = 3
    /\ threads[1].consecutive_failures = 2
    /\ hist[1].fail_run.alerts = 0

(* ====================== faults inside one cycle ======================= *)
\* C23: the loop of a monitor ends only because its stop event is set: a probe
\* that fails, an insert or a notifier that raises, or a malformed threshold
\* in the environment never ends it while the event is unset.
C23_LoopEndsOnlyWhenCancelled ==
    \A t \in Tids : Ended(threads[t]) => threads[t].is_set

\* C24: in an alerting cycle every channel is attempted whichever of them
\* raise, the counter that alerted is reset and the row of the cycle is handed
\* to the sink; whether the insert goes through does not change whether the
\* cycle alerts.
C24_ChannelsIndependent ==
    \A t \in Tids :
        Evaluated(t) =>
            LET c == hist[t].last IN
            /\ c.alert =>
                  /\ c.attempted = ChannelSet
                  /\ ~c.success => threads[t].consecutive_failures = 0
                  /\ c.success => threads[t].consecutive_latency_alerts = 0
            /\ sink[t].last.count = threads[t].counter - 1
            /\ sink[t].last.status =
                   StatusKind(c.success, c.response_time_ms, c.ping_threshold)
            /\ c.alert <=>
                  \/ ~c.success /\ c.prior_failures + 1 >= c.alert_threshold
                  \/ /\ c.success
                     /\ c.response_time_ms > c.ping_threshold
                     /\ c.prior_latency_alerts + 1 >= c.alert_threshold

\* an alerting cycle in which all three channels raised and the insert failed
C24_Witness ==
    /\ Evaluated(1)
    /\ hist[1].last.alert
    /\ hist[1].last.failed = ChannelSet
    /\ hist[1].last.attempted = ChannelSet
    /\ ~hist[1].last.stored
    /\ threads[1].consecutive_failures = 0
    /\ sink[1].rows = 1
    /\ sink[1].last.status = "Ping Failure"

(* ===================== settings read once per cycle =================== *)
\* C25: the three settings are read from the environment once, at the top of a
\* cycle; the classification, the alert decision and the wait of that cycle
\* use the values read then, whatever a reload does to the environment
\* meanwhile.  A reload that changes them starts no monitor, stops none and
\* leaves every counter as it was: the next cycle reads the new values.
C25_SettingsReadOncePerCycle ==
    [][/\ \A t \in Tids :
            /\ threads[t].pc = "check" /\ threads'[t].pc = "cycle" =>
                  /\ threads'[t].ping_threshold = env.ping_threshold
                  /\ threads'[t].alert_threshold = env.alert_threshold
                  /\ threads'[t].ping_interval = env.ping_interval
                  /\ threads'[t].consecutive_failures = threads[t].consecutive_failures
                  /\ threads'[t].consecutive_latency_alerts =
                         threads[t].consecutive_latency_alerts
                  /\ threads'[t].counter = threads[t].counter
            /\ threads[t].pc = "cycle" /\ threads'[t].pc = "cycle" =>
                  threads'[t] = threads[t]
            /\ threads[t].pc = "cycle" /\ threads'[t].pc = "wait" =>
                  threads'[t].ping_interval = threads[t].ping_interval
            /\ threads[t].pc = "cycle" /\ threads'[t].counter = threads[t].counter + 1 =>
                  LET c == hist'[t].last IN
                  /\ c.ping_threshold = threads[t].ping_threshold
                  /\ c.alert_threshold = threads[t].alert_threshold
                  /\ sink'[t].last.status =
                         StatusKind(c.success, c.response_time_ms, threads[t].ping_threshold)
                  /\ c.alert <=>
                        \/ /\ ~c.success
                           /\ threads[t].consecutive_failures + 1 >= threads[t].alert_threshold
                        \/ /\ c.success
                           /\ c.response_time_ms > threads[t].ping_threshold
                           /\ threads[t].consecutive_latency_alerts + 1 >=
                                  threads[t].alert_threshold
       /\ env' # env => threads' = threads /\ active_threads' = active_threads
       /\ Len(threads') = Len(threads)]_vars

\* the alert threshold was lowered from 2 to 1 after one probe failure: the
\* second failure alerts at once, in the same thread, and its wait uses the
\* interval read at the top of the cycle though a reload has changed it since
C25_Witness ==
    /\ Len(threads) = 1
    /\ Evaluated(1)
    /\ ~hist[1].last.success
    /\ hist[1].last.prior_failures = 1
    /\ hist[1].last.alert_threshold = 1
    /\ hist[1].last.alert
    /\ threads[1].counter = 3
    /\ threads[1].pc = "wait"
    /\ threads[1].ping_interval = 60
    /\ env.ping_interval = 30

(* ==================== monitors and the reconciler ===================== *)
\* C26: a monitor that has not ended can take the next step of its loop in
\* every state of the process before it exits: whatever the other monitors are
\* doing, and whoever holds config_lock, also inside a join.  (At the bound on
\* the attempts the loop of the model goes no further.)
C26_MonitorsNeverBlocked ==
    \A t \in Tids :
        Alive =>
            /\ threads[t].pc = "check"
                  /\ (threads[t].is_set \/ threads[t].counter <= MaxAttempts)
                  => ENABLED MonCheck(t, MaxAttempts)
            /\ threads[t].pc = "cycle"
                  => ENABLED MonCycle(t, SysProbeResults, SysSinkOutcomes, NoChannelFaults)
            /\ threads[t].pc = "wait" => ENABLED MonWait(t)

\* the watcher holds the lock inside the join of a monitor that is stuck in
\* its probe, and the other monitor is in its cycle
C26_Witness ==
    \E a, b \in Tids :
        /\ a # b
        /\ proc["watcher"].pc = "stop_join"
        /\ config_lock = "watcher"
        /\ proc["watcher"].url = threads[a].url
        /\ threads[a].pc = "cycle"
        /\ threads[a].is_set
        /\ threads[b].pc = "cycle"
        /\ ~threads[b].is_set

\* C27: a step of a monitor (one that moves a monitor thread along its loop,
\* or out of it because it was cancelled or because an exception left it)
\* changes neither active_threads nor stop_events nor current_urls, sets no
\* event and takes no lock: a monitor that ends stays registered until a
\* reconciliation or shutdown removes its name.
C27_MonitorLeavesTargetSet ==
    [][(\E t \in Tids : threads'[t].pc # threads[t].pc) =>
          /\ TargetSet' = TargetSet
          /\ \A t \in Tids : threads'[t].is_set = threads[t].is_set
          /\ config_lock' = config_lock
          /\ Len(threads') = Len(threads)]_vars

\* one monitor left its loop by an exception and is still registered, and one
\* left it cancelled and was removed by the reconciliation that cancelled it
C27_Witness ==
    \E t, o \in Tids :
        /\ threads[t].pc = "crashed"
        /\ threads[t].url \in DOMAIN active_threads
        /\ active_threads[threads[t].url] = t
        /\ threads[t].url \in current_urls
        /\ threads[o].pc = "done"
        /\ threads[o].counter >= 2

(* ======================= start_monitoring_url ========================= *)
\* C28: no step, and so no call of start_monitoring_url for a name that is
\* registered, creates a thread for a registered name or changes that name's
\* thread or event; the locals of the registered thread change only by its own
\* steps.
C28_StartRegisteredIsNoOp ==
    [][\A u \in DOMAIN active_threads :
          /\ u \in DOMAIN active_threads'
          /\ active_threads'[u] = active_threads[u]
          /\ stop_events'[u] = stop_events[u]
          /\ \A t \in (1..Len(threads')) \ Tids : threads'[t].url # u
          /\ LET t == active_threads[u] IN
             /\ threads'[t].is_set = threads[t].is_set
             /\ threads'[t].pc = threads[t].pc => threads'[t] = threads[t]]_vars

\* start_monitoring_url was called for the registered name a: there is still
\* one thread, the one registered, with the counters it had
C28_Witness ==
    /\ proc["main"].url = "a"
    /\ "a" \in DOMAIN active_threads
    /\ active_threads["a"] = 1
    /\ stop_events["a"] = 1
    /\ Len(threads) = 1
    /\ threads[1].counter = 2
    /\ threads[1].consecutive_failures = 1
    /\ ~threads[1].is_set

(* ======================= the aggregated status view =================== *)
\* the request has been answered for the log the server read
Served == ping_data = <<>> \/ url_statuses # <<>>

\* the rows of target u, those written after row i, and the RecentPings latest
RowsFor(u) == {i \in DOMAIN ping_data : ping_data[i].url = u}

Newer(u, i) == {j \in RowsFor(u) : ping_data[j].timestamp > ping_data[i].timestamp}

MostRecent(u) == {i \in RowsFor(u) : Cardinality(Newer(u, i)) < RecentPings}

\* among them the Success rows, and the Success rows with a latency
Up(I) == {i \in I : ping_data[i].status = "Success"}

Timed(I) == {i \in Up(I) : ping_data[i].response_time # NoValue}

\* the latencies of the rows I among the rows lo..hi of the log, added up
RECURSIVE LatencySum(_, _, _)
LatencySum(I, lo, hi) ==
    IF lo > hi THEN 0
    ELSE IF lo = hi THEN (IF lo \in I THEN ping_data[lo].response_time ELSE 0)
    ELSE LET h == (lo + hi) \div 2
         IN  LatencySum(I, lo, h) + LatencySum(I, h + 1, hi)

\* the rows of the run of Ping Failure rows that ends at the latest row
TrailingFailures(u) ==
    {i \in RowsFor(u) :
        \A j \in RowsFor(u) :
            ping_data[j].timestamp >= ping_data[i].timestamp =>
                ping_data[j].status = "Ping Failure"}

\* C29: the status view has one entry for each target with a row, and in it:
\* the latest row is a row of the target with the greatest timestamp; the
\* uptime percentage is 100 * (Success rows) / (rows) over the 50 latest rows;
\* the consecutive failures are the length of the run of Ping Failure rows that
\* ends at the latest row; the average latency is the mean over the Success
\* rows with a latency among the 50 latest, and there is none when there is no
\* such row.  High Latency rows count neither as up nor toward the average.
C29_StatusView ==
    Served =>
        /\ DOMAIN url_statuses = {ping_data[i].url : i \in DOMAIN ping_data}
        /\ \A u \in DOMAIN url_statuses :
              LET v == url_statuses[u]
                  recent == MostRecent(u)
                  timed == Timed(recent)
              IN
              /\ v.latest_ping \in {ping_data[i] : i \in {k \in RowsFor(u) : Newer(u, k) = {}}}
              /\ v.uptime_percentage.den > 0
              /\ v.uptime_percentage.num * Cardinality(recent) =
                     100 * Cardinality(Up(recent)) * v.uptime_percentage.den
              /\ v.consecutive_failures = Cardinality(TrailingFailures(u))
              /\ IF timed = {} THEN v.average_response_time = NoFraction
                 ELSE /\ v.average_response_time.den > 0
                      /\ v.average_response_time.num * Cardinality(timed) =
                             LatencySum(timed, 1, Len(ping_data)) *
                                 v.average_response_time.den

\* a target with two rows more than the window holds: two old Success rows of
\* 90 ms outside it, then 48 Success rows of 40 ms, a High Latency row and a
\* Ping Failure row; another target has a row after them
C29_Witness ==
    /\ DOMAIN url_statuses = {"a", "b"}
    /\ url_statuses["a"].total_pings = RecentPings + 2
    /\ \E i \in RowsFor("a") : i \notin MostRecent("a") /\ ping_data[i].response_time = 90
    /\ \E i \in MostRecent("a") : ping_data[i].status = "High Latency"
    /\ url_statuses["a"].latest_ping.status = "Ping Failure"
    /\ url_statuses["a"].consecutive_failures = 1
    /\ url_statuses["a"].uptime_percentage = Fraction(100 * (RecentPings - 2), RecentPings)
    /\ url_statuses["a"].average_response_time =
           Fraction(40 * (RecentPings - 2), RecentPings - 2)
    /\ ping_data[Len(ping_data)].url = "b"

(* ===================== the two counters together ====================== *)
\* C30: in every state of a monitor at most one of consecutive_failures and
\* consecutive_latency_alerts is non-zero: after a cycle whose probe failed
\* the latency counter is 0, after one whose probe succeeded the failure
\* counter is 0.  A cycle that follows a cycle of the other kind therefore
\* starts its own counter from 0 and alerts only under threshold 1.
C30_OneCounterNonZero ==
    \A t \in Tids :
        /\ threads[t].consecutive_failures = 0 \/ threads[t].consecutive_latency_alerts = 0
        /\ Evaluated(t) =>
              LET c == hist[t].last IN
              /\ ~c.success => threads[t].consecutive_latency_alerts = 0
              /\ c.success => threads[t].consecutive_failures = 0
              /\ c.prior_failures = 0 \/ c.prior_latency_alerts = 0
              /\ (~c.success /\ c.prior_latency_alerts > 0) \/
                 (c.success /\ c.prior_failures > 0)
                    => (c.alert => c.alert_threshold = 1)

\* the fourth cycle of a monitor under threshold 2 is a slow success right
\* after a single failure: no alert, and the counters stand at 0 and 1
C30_Witness ==
    /\ Evaluated(1)
    /\ threads[1].counter = 5
    /\ hist[1].last.success
    /\ hist[1].last.prior_failures = 1
    /\ hist[1].last.alert_threshold = 2
    /\ ~hist[1].last.alert
    /\ threads[1].consecutive_failures = 0
    /\ threads[1].consecutive_latency_alerts = 1
    /\ hist[1].fail_run.alerts = 0
    /\ hist[1].lat_run.n = 1
    /\ hist[1].lat_run.alerts = 0
    /\ sink[1].rows = 4

(* ==================== the counters and the threshold ================== *)
\* C31: at the end of an evaluated cycle that read an alert threshold T >= 1
\* both counters are between 0 and T - 1, also when a reload lowered T below
\* the count the cycle started with; the cycle alerts exactly when its bad
\* event brings its counter to T or beyond, and the counter is then 0.
C31_CountersBelowThreshold ==
    \A t \in Tids :
        Evaluated(t) /\ hist[t].last.alert_threshold >= 1 =>
            LET c == hist[t].last
                T == c.alert_threshold
                th == threads[t]
                slow == c.success /\ c.response_time_ms > c.ping_threshold
            IN  /\ 0 <= th.consecutive_failures
                /\ th.consecutive_failures <= T - 1
                /\ 0 <= th.consecutive_latency_alerts
                /\ th.consecutive_latency_alerts <= T - 1
                /\ ~c.success /\ c.prior_failures + 1 >= T =>
                      c.alert /\ th.consecutive_failures = 0
                /\ ~c.success /\ c.prior_failures + 1 < T =>
                      ~c.alert /\ th.consecutive_failures = c.prior_failures + 1
                /\ slow /\ c.prior_latency_alerts + 1 >= T =>
                      c.alert /\ th.consecutive_latency_alerts = 0
                /\ slow /\ c.prior_latency_alerts + 1 < T =>
                      ~c.alert /\ th.consecutive_latency_alerts = c.prior_latency_alerts + 1

\* two failures under threshold 3, then a reload lowers the threshold to 1:
\* the third failure starts from a count of 2, alerts and leaves the count 0
C31_Witness ==
    /\ Evaluated(1)
    /\ ~hist[1].last.success
    /\ hist[1].last.prior_failures = 2
    /\ hist[1].last.alert_threshold = 1
    /\ hist[1].last.alert
    /\ threads[1].consecutive_failures = 0
    /\ threads[1].counter = 4

(* ================= the maps of the TargetSet together ================= *)
\* C32: whenever config_lock is free, active_threads and stop_events have the
\* same keys, a name's thread and event are those of one start, the event of
\* every registered name is unset, and until shutdown() is first called the
\* keys are the names in current_urls.
C32_MapsInLockStep ==
    config_lock = None =>
        /\ DOMAIN active_threads = DOMAIN stop_events
        /\ \A u \in DOMAIN active_threads :
              /\ active_threads[u] = stop_events[u]
              /\ threads[active_threads[u]].url = u
              /\ ~threads[stop_events[u]].is_set
        /\ shutdowns = 0 => DOMAIN active_threads = current_urls

\* the lock is free after a reconciliation that removed a, whose event is set,
\* and registered b, whose event is unset
C32_Witness ==
    /\ config_lock = None
    /\ shutdowns = 0
    /\ current_urls = {"b"}
    /\ DOMAIN active_threads = {"b"}
    /\ DOMAIN stop_events = {"b"}
    /\ \E t \in Tids : threads[t].url = "a" /\ threads[t].is_set
    /\ threads[active_threads["b"]].pc = "wait"

(* ========================= after cancellation ========================= *)
\* the alerts counted in the runs of monitor t
Alerts(h, t) == h[t].fail_run.alerts + h[t].lat_run.alerts

\* C33: once the event of a monitor is set it stays set, and from then on the
\* monitor at the top of its loop, in its wait or ended moves only to the end
\* and probes, logs and alerts no more, while a monitor inside a cycle ends
\* that cycle (one probe, at most one row, at most one alert) and goes to its
\* wait, which it leaves for the end of the loop, never for another cycle.
\* A monitor that is cancelled and not inside a blocking call of its cycle
\* eventually ends.
C33_AtMostOneCycleAfterCancel ==
    /\ [][\A t \in Tids :
             threads[t].is_set =>
                 /\ threads'[t].is_set
                 /\ threads[t].pc \in {"check", "wait"} =>
                       /\ threads'[t].pc \in {threads[t].pc, "done"}
                       /\ Effects(t, threads', sink', hist') =
                              Effects(t, threads, sink, hist)
                 /\ Ended(threads[t]) =>
                       /\ threads'[t].pc = threads[t].pc
                       /\ Effects(t, threads', sink', hist') =
                              Effects(t, threads, sink, hist)
                 /\ threads[t].pc = "cycle" =>
                       /\ threads'[t].pc \in {"cycle", "wait"}
                       /\ threads'[t].counter <= threads[t].counter + 1
                       /\ sink'[t].rows <= sink[t].rows + 1
                       /\ Alerts(hist', t) <= Alerts(hist, t) + 1]_vars
    /\ \A t \in 1..MaxThreads :
          (t \in Tids /\ threads[t].is_set /\ threads[t].pc # "cycle")
              ~> (t \in Tids /\ Ended(threads[t]))

\* the event of a monitor was set while it is inside its second cycle, under
\* threshold 1: the probe it is about to make is its last, and alerts if it fails
C33_Witness ==
    \E t \in Tids :
        /\ threads[t].is_set
        /\ threads[t].pc = "cycle"
        /\ threads[t].counter = 2
        /\ threads[t].alert_threshold = 1
        /\ proc["watcher"].pc = "stop_join"
        /\ proc["watcher"].url = threads[t].url

(* ===================== the flat file and csv_lock ===================== *)
\* the rows of the file: piece k of a row is at place k of its stretch of
\* RowParts places
RowAt(n) == csvfile.pieces[(n - 1) * RowParts + 1].row
RowCount == Len(csvfile.pieces) \div RowParts

\* the thread is inside the critical section of log_to_csv
InLog(th) == th.pc \in {"isfile", "open", "header", "row", "close"}

\* the data rows of a thread that are in the file
RowsOfThread(th) ==
    {n \in 1..RowCount : RowAt(n).url = th.url}

\* C34: at most one thread is inside log_to_csv, and it holds csv_lock. The
\* pieces in the file are those of whole rows one after the other, the last of
\* them unfinished only while its writer is inside log_to_csv. The header is
\* the first row and no other row, and it is in the file as soon as any
\* thread has passed the existence check. Every thread has one row in the file
\* for each attempt it has logged, in the order of its attempts.
C34_HeaderOnceRowsWhole ==
    /\ \A i, j \in FlatTids :
          InLog(flat_threads[i]) /\ InLog(flat_threads[j]) => i = j
    /\ \A i \in FlatTids : InLog(flat_threads[i]) <=> csv_lock = i
    /\ \A n \in DOMAIN csvfile.pieces :
          LET p == csvfile.pieces[n]
              first == n - ((n - 1) % RowParts)
          IN  /\ p.part = ((n - 1) % RowParts) + 1
              /\ p.row = csvfile.pieces[first].row
              /\ (p.row = HeaderRow) <=> (first = 1)
    /\ Len(csvfile.pieces) % RowParts # 0 =>
          \E i \in FlatTids : flat_threads[i].pc \in {"header", "row"}
    /\ csvfile.exists \/ csvfile.pieces = <<>>
    /\ \A i \in FlatTids :
          LET th == flat_threads[i]
          IN  /\ th.pc \in {"row", "close"} \/ th.counter > 1 =>
                    /\ Len(csvfile.pieces) >= RowParts
                    /\ RowAt(1) = HeaderRow
              /\ ~InLog(th) =>
                    /\ Cardinality(RowsOfThread(th)) = th.counter - 1
                    /\ \A n, m \in RowsOfThread(th) :
                          n < m => RowAt(n).count < RowAt(m).count

\* both monitors have logged MaxRows rows each, and the first row is a row
\* of the monitor that was started second
C34_Witness ==
    /\ Len(flat_threads) = 2
    /\ \A i \in FlatTids :
          flat_threads[i].pc = "sleep" /\ flat_threads[i].counter = MaxRows + 1
    /\ RowCount = 1 + 2 * MaxRows
    /\ RowAt(2).url = flat_threads[2].url
    /\ RowAt(3).url = flat_threads[1].url

====
